---- MODULE Spec2Model ----
(***************************************************************************)
(* aicontextator: the cli pipeline of src/src/aicontextator.py             *)
(* (filter -> interactive selection -> generate_context -> output).        *)
(*                                                                         *)
(* Text is a sequence of pieces <<kind, file>>; a piece stands for one     *)
(* fixed stretch of characters:                                            *)
(*   <<"NL",0>>          one newline character                             *)
(*   <<"OPEN",0>>        the characters "<<<"                              *)
(*   <<"CLOSE",0>>       the characters ">>>"                              *)
(*   <<"INTRO",0>>       the two instruction sentences of the meta-prompt  *)
(*   <<"TREE",0>>        "The project structure is as follows:" NL tree    *)
(*   <<"FILE_HDR",f>>    the line "--- FILE: <posix path of f> ---"        *)
(*   <<"CONTENT",f>>     the raw content of file f                         *)
(* Files are named by their position in the File Filter's output.          *)
(***************************************************************************)
EXTENDS Integers, Sequences, FiniteSets, TLC

\* ---- bounds of the model ----
MaxFiles == 2
MaxCost == 2
MaxBudget == 2
MaxWarn == 1
MaxLines == 2
MaxTreeFiles == 3

\* path of the header pseudo-file, "_aicontext_header_"
HEADER_PATH == 0

VARIABLES
    pc,               \* position of cli()
    interactive,      \* --interactive
    prompt_no_header, \* --prompt-no-header
    count_tokens,     \* --count-tokens
    max_tokens,       \* --max-tokens (0 stands for None or 0: both falsy)
    warn_tokens,      \* --warn-tokens (0 stands for None or 0)
    filter_output,    \* what filter_project_files returned
    selected,         \* the files ticked in the interactive prompt
    prompt_answer,    \* what the checkbox prompt returned: a list or None
    filtered_files,   \* cli's filtered_files, as generate_context iterates it
    secrets_report,   \* what checkSecurityIssue returned
    tree_view,        \* TRUE iff a tree view text was rendered (tree_view != "")
    counter,          \* what _count is bound to ("none" before line 213)
    idx,              \* files of filtered_files already iterated
    asm,              \* locals of generate_context
    ref,              \* locals of the same call made with max_tokens = None
    read_errors,      \* files reported by "Error reading ..."
    echoed,           \* messages of cli printed so far
    output_format,    \* --format, once read ("none" before)
    copy,             \* --copy, once read
    files_written,    \* text files written by cli
    json_written,     \* JSON documents written by cli
    clipboard,        \* texts handed to pyperclip.copy
    env,              \* the answers of the environment, when they are fixed
    run,              \* 1 in the first run of the pipeline, 2 in a re-run
    first_run,        \* what the first run wrote
    lib_pc,           \* position of a direct call of a library function
    lib_in,           \* its arguments
    lib_out           \* its result

flagVars == <<interactive, prompt_no_header, count_tokens, max_tokens,
              warn_tokens>>

libVars == <<lib_pc, lib_in, lib_out>>

cliVars == <<pc, flagVars, filter_output, selected, prompt_answer,
             filtered_files, secrets_report, tree_view, counter, idx, asm,
             ref, read_errors, echoed, output_format, copy, files_written,
             json_written, clipboard, env, run, first_run>>

vars == <<cliVars, libVars>>

\* ---- helpers ----
Range(s) == {s[i] : i \in 1..Len(s)}

RECURSIVE SumSeq(_)
SumSeq(s) == IF s = <<>> THEN 0 ELSE Head(s) + SumSeq(Tail(s))

RECURSIVE Flatten(_)
Flatten(ss) == IF ss = <<>> THEN <<>> ELSE Head(ss) \o Flatten(Tail(ss))

\* every order in which a set can be iterated
Orders(S) ==
    {s \in [1..Cardinality(S) -> S] :
        \A i, j \in 1..Cardinality(S) : i # j => s[i] # s[j]}

NL == <<"NL", 0>>

\* ---- generate_context ----

\* the locals of generate_context after lines 229-236
EmptyAsm ==
    [context_parts |-> <<>>,
     token_counts |-> <<>>,
     parts_meta |-> <<>>,
     current_part_builder |-> <<>>,
     current_token_count |-> 0,
     current_part_files_meta |-> <<>>,
     warn_triggered |-> FALSE,
     threshold_warnings |-> 0]

\* lines 213-227: what _count is bound to
BindCount(ct, tiktoken_ok) ==
    IF ct
    THEN (IF tiktoken_ok THEN "tiktoken" ELSE "unbound")
    ELSE "zero"

\* a counter that counts although token counting is disabled
Count_Always(cnt, tokens) == tokens

\* _count(text): the encoder is opaque, tokens is what it returns for the text
Count(cnt, tokens) == IF cnt = "zero" THEN 0 ELSE tokens

\* lines 238-250
PreliminaryText(no_header, tv) ==
    (IF ~no_header THEN << <<"INTRO", 0>>, NL, NL >> ELSE <<>>)
    \o (IF tv THEN << <<"TREE", 0>>, NL, NL >> ELSE <<>>)
    \o << <<"OPEN", 0>>, NL >>

\* sha256_text, lines 43-45: a hash stands for the text it was computed from
Sha256Text(text) == [sha256_of |-> text]

\* secrets_report.get(key, []), line 301
Get(report, key) == IF key \in DOMAIN report THEN report[key] ELSE <<>>

\* relative_path.as_posix(), line 299: the key generate_context looks up
LookupKey(f) == <<"root_relative", f>>

\* a header whose metadata entry is appended twice
WriteHeader_Twice(st, text, prelim_tokens) ==
    LET entry == [path |-> HEADER_PATH,
                  sha256 |-> Sha256Text(text),
                  estimated_tokens |-> prelim_tokens,
                  potential_secrets |-> <<>>]
    IN [st EXCEPT
           !.current_part_builder = @ \o text,
           !.current_token_count = @ + prelim_tokens,
           !.current_part_files_meta = @ \o <<entry, entry>>]

\* lines 252-264
WriteHeader(st, text, prelim_tokens) ==
    IF text # <<>>
    THEN [st EXCEPT
            !.current_part_builder = @ \o text,
            !.current_token_count = @ + prelim_tokens,
            !.current_part_files_meta =
                Append(@, [path |-> HEADER_PATH,
                           sha256 |-> Sha256Text(text),
                           estimated_tokens |-> prelim_tokens,
                           potential_secrets |-> <<>>])]
    ELSE st

\* lines 271, 275
FileBlock(f) == << NL, <<"FILE_HDR", f>>, NL, <<"CONTENT", f>>, NL >>

\* a split decided on the running count alone, before the block is added
ShouldSplit_Late(st, block_tokens, maxt) ==
    /\ maxt # 0
    /\ st.current_token_count > maxt
    /\ st.current_token_count > 0

\* lines 284-288
ShouldSplit(st, block_tokens, maxt) ==
    /\ maxt # 0
    /\ st.current_token_count + block_tokens > maxt
    /\ st.current_token_count > 0

\* a finalize that starts the next part without a fresh StringIO
Finalize_KeepBuilder(st) ==
    [st EXCEPT
        !.context_parts = Append(@, st.current_part_builder),
        !.token_counts = Append(@, st.current_token_count),
        !.parts_meta = Append(@, [files |-> st.current_part_files_meta]),
        !.current_token_count = 0,
        !.current_part_files_meta = <<>>]

\* lines 289-297
Finalize(st) ==
    [st EXCEPT
        !.context_parts = Append(@, st.current_part_builder),
        !.token_counts = Append(@, st.current_token_count),
        !.parts_meta = Append(@, [files |-> st.current_part_files_meta]),
        !.current_part_builder = <<>>,
        !.current_token_count = 0,
        !.current_part_files_meta = <<>>]

\* a block whose tokens are not added to the running count
AppendBlock_NoCount(st, f, block_tokens, report) ==
    [st EXCEPT
        !.current_part_files_meta =
            Append(@, [path |-> f,
                       sha256 |-> Sha256Text(<< <<"CONTENT", f>> >>),
                       estimated_tokens |-> block_tokens,
                       potential_secrets |-> Get(report, LookupKey(f))]),
        !.current_part_builder = @ \o FileBlock(f)]

\* lines 299-314
AppendBlock(st, f, block_tokens, report) ==
    [st EXCEPT
        !.current_part_files_meta =
            Append(@, [path |-> f,
                       sha256 |-> Sha256Text(<< <<"CONTENT", f>> >>),
                       estimated_tokens |-> block_tokens,
                       potential_secrets |-> Get(report, LookupKey(f))]),
        !.current_part_builder = @ \o FileBlock(f),
        !.current_token_count = @ + block_tokens]

\* a warning check that never sets warn_triggered
WarnCheck_NoLatch(st, warnt) ==
    IF warnt # 0 /\ st.current_token_count > warnt /\ ~st.warn_triggered
    THEN [st EXCEPT !.threshold_warnings = @ + 1]
    ELSE st

\* lines 316-321
WarnCheck(st, warnt) ==
    IF warnt # 0 /\ st.current_token_count > warnt /\ ~st.warn_triggered
    THEN [st EXCEPT !.threshold_warnings = @ + 1, !.warn_triggered = TRUE]
    ELSE st

\* an iteration in which stat() is called after the block has been written
ProcessFile_StatLast(st, f, outcome, block_tokens, maxt, warnt, report) ==
    IF outcome = "fail_read"
    THEN st
    ELSE LET s1 == IF ShouldSplit(st, block_tokens, maxt)
                   THEN Finalize(st) ELSE st
         IN IF outcome = "fail_stat"
            THEN AppendBlock(s1, f, block_tokens, report)
            ELSE WarnCheck(AppendBlock(s1, f, block_tokens, report), warnt)

\* lines 269-324, one iteration.  outcome:
\*   "ok"        nothing raises
\*   "fail_read" relative_to/open/read/_count raises (lines 270-276)
\*   "fail_stat" file_path.stat() raises (line 305), after the split
ProcessFile(st, f, outcome, block_tokens, maxt, warnt, report) ==
    IF outcome = "fail_read"
    THEN st
    ELSE LET s1 == IF ShouldSplit(st, block_tokens, maxt)
                   THEN Finalize(st) ELSE st
         IN IF outcome = "fail_stat"
            THEN s1
            ELSE WarnCheck(AppendBlock(s1, f, block_tokens, report), warnt)

\* lines 326-331
Finish(st) ==
    LET s1 == [st EXCEPT !.current_part_builder = @ \o << <<"CLOSE", 0>>, NL >>]
    IN IF Len(s1.current_part_builder) > 0
       THEN [s1 EXCEPT
               !.context_parts = Append(@, s1.current_part_builder),
               !.token_counts = Append(@, s1.current_token_count),
               !.parts_meta = Append(@, [files |-> s1.current_part_files_meta])]
       ELSE s1

\* ---- checkSecurityIssue ----

\* what the classifier finds in file f: a list of {type, line}
Findings(f) == << [type |-> "Secret Keyword", line |-> f] >>

\* lines 521-532: the engine is given str(p) and names each file of
\* secrets.data in its own way; the adapter keeps that name as the key
\* (rel_path = file_path).  form is "root_relative" when the engine's name
\* happens to be the root-relative posix path, "as_reported" otherwise
\* (an absolute path, a path relative to another working directory).
ScanKey(f, form) == <<form, f>>

\* the files of the project in which the classifier can find something
SecretFiles == {1}

\* lines 513-555
CheckSecurityIssue(files, found, engine_ok, form) ==
    IF engine_ok
    THEN [k \in {ScanKey(f, form) : f \in found \cap Range(files)} |->
            Findings(k[2])]
    ELSE [k \in {} |-> <<>>]

\* ---- build_and_write_json ----

\* a count that does not leave the header pseudo-file out
RealFiles_All(files) == files

\* lines 72-74
RealFiles(files) == SelectSeq(files, LAMBDA e : e.path # HEADER_PATH)

\* warnings that carry the 0-based index of enumerate
PartWarnings_ZeroBased(i, files) ==
    LET hits == SelectSeq(files, LAMBDA e : e.potential_secrets # <<>>)
    IN [k \in 1..Len(hits) |->
          [part_index |-> i - 1,
           file_path |-> hits[k].path,
           reason |-> "Potential secrets detected in file",
           matches |-> hits[k].potential_secrets]]

\* lines 75-84, for part i (i is the 1-based index, i + 1 of the code)
PartWarnings(i, files) ==
    LET hits == SelectSeq(files, LAMBDA e : e.potential_secrets # <<>>)
    IN [k \in 1..Len(hits) |->
          [part_index |-> i,
           file_path |-> hits[k].path,
           reason |-> "Potential secrets detected in file",
           matches |-> hits[k].potential_secrets]]

\* lines 67-105
BuildJson(st, tv) ==
    [file_count |-> SumSeq([i \in 1..Len(st.parts_meta) |->
                               Len(RealFiles(st.parts_meta[i].files))]),
     tree |-> tv,
     total_estimated_tokens |-> SumSeq(st.token_counts),
     warnings |-> Flatten([i \in 1..Len(st.parts_meta) |->
                              PartWarnings(i, st.parts_meta[i].files)]),
     parts |-> [i \in 1..Len(st.parts_meta) |->
                  [index |-> i,
                   estimated_tokens |-> st.token_counts[i],
                   files |-> st.parts_meta[i].files]]]

\* ---- cli, output ----

\* a writer that also writes the unsuffixed path when the output is split
TextFiles_AlsoUnsuffixed(parts) ==
    << [name |-> <<"output", 0>>, text |-> parts[1]] >>
    \o (IF Len(parts) = 1 THEN <<>>
        ELSE [i \in 1..Len(parts) |->
                [name |-> <<"part", i>>, text |-> parts[i]]])

\* lines 488-501: the files of a text-mode run, <<"output", 0>> standing for
\* the path given by --output and <<"part", n>> for <base>-part-<n><ext>
TextFiles(parts) ==
    IF Len(parts) = 1
    THEN << [name |-> <<"output", 0>>, text |-> parts[1]] >>
    ELSE [i \in 1..Len(parts) |-> [name |-> <<"part", i>>, text |-> parts[i]]]

\* a copy that does not look at the format
ClipboardCopies_Always(fmt, cp, parts) ==
    IF cp THEN << parts[1] >> ELSE <<>>

\* lines 459-477: what is handed to pyperclip.copy
ClipboardCopies(fmt, cp, parts) ==
    IF fmt # "json" /\ cp THEN << parts[1] >> ELSE <<>>

\* the exit status of the process: 0 when cli returns (lines 431, 442, 457,
\* 510), 1 for SystemExit with a message (line 594) or an uncaught exception
ExitStatus(p) ==
    IF p = "exit" THEN 0
    ELSE IF p \in {"cancelled", "crashed"} THEN 1
    ELSE -1

\* ---- the environment ----

\* in Spec every answer of the environment is free
FreeEnv ==
    [fixed |-> FALSE, n |-> 0, picked |-> {}, answer |-> "confirm",
     tree |-> FALSE, tree_only |-> FALSE, found |-> {}, engine_ok |-> TRUE,
     key_form |-> "root_relative", tiktoken_ok |-> TRUE, tokens |-> 0,
     unreadable |-> {}, output_format |-> "text", copy |-> FALSE]

\* the environment answers v to the question named field
Draws(field, v) == env.fixed => env[field] = v

NoRun == [files_written |-> <<>>, json_written |-> <<>>, clipboard |-> <<>>]

\* ---- the run ----

\* the variables of cli before its first line
StartOfRun ==
    /\ pc = "filter"
    /\ filter_output = <<>>
    /\ selected = {}
    /\ prompt_answer = "none"
    /\ filtered_files = <<>>
    /\ secrets_report = <<>>
    /\ tree_view = FALSE
    /\ counter = "none"
    /\ idx = 0
    /\ asm = EmptyAsm
    /\ ref = EmptyAsm
    /\ read_errors = {}
    /\ echoed = {}
    /\ output_format = "none"
    /\ copy = FALSE
    /\ files_written = <<>>
    /\ json_written = <<>>
    /\ clipboard = <<>>

Flags ==
    /\ interactive \in BOOLEAN
    /\ prompt_no_header \in BOOLEAN
    /\ count_tokens \in BOOLEAN
    /\ max_tokens \in 0..MaxBudget
    /\ warn_tokens \in 0..MaxWarn

LibIdle ==
    /\ lib_pc = "idle"
    /\ lib_in = <<>>
    /\ lib_out = <<>>

Init ==
    /\ StartOfRun
    /\ Flags
    /\ env = FreeEnv
    /\ run = 1
    /\ first_run = NoRun
    /\ LibIdle

\* cli line 424
FilterProjectFiles ==
    /\ pc = "filter"
    /\ \E n \in 0..MaxFiles :
        /\ Draws("n", n)
        /\ filter_output' = [i \in 1..n |-> i]
        /\ filtered_files' = [i \in 1..n |-> i]
        /\ selected' = 1..n
    /\ pc' = IF interactive THEN "select" ELSE "check"
    /\ UNCHANGED <<flagVars, prompt_answer, secrets_report, tree_view,
                   counter, idx, asm, ref, read_errors, echoed,
                   output_format, copy, files_written, json_written,
                   clipboard, env, run, first_run, libVars>>

\* cli lines 426-427, interactive_file_selector returning a set of paths:
\* the later "for file_path in filtered_files" iterates the set in any order
InteractiveFileSelector ==
    /\ pc = "select"
    /\ filtered_files = <<>> \/ Draws("answer", "confirm")
    /\ \E S \in SUBSET Range(filtered_files) :
        /\ filtered_files = <<>> => S = {}
        /\ env.fixed => S = env.picked \cap Range(filtered_files)
        /\ selected' = S
        /\ \E o \in Orders(S) : filtered_files' = o
    /\ prompt_answer' = IF filtered_files = <<>> THEN "none" ELSE "confirm"
    /\ pc' = "check"
    /\ UNCHANGED <<flagVars, filter_output, secrets_report, tree_view,
                   counter, idx, asm, ref, read_errors, echoed,
                   output_format, copy, files_written, json_written,
                   clipboard, env, run, first_run, libVars>>

\* a cancelled prompt taken as an empty selection
CancelSelection_AsEmpty ==
    /\ pc = "select"
    /\ filtered_files # <<>>
    /\ Draws("answer", "cancel")
    /\ prompt_answer' = "cancel"
    /\ selected' = {}
    /\ filtered_files' = <<>>
    /\ pc' = "check"
    /\ UNCHANGED <<flagVars, filter_output, secrets_report, tree_view,
                   counter, idx, asm, ref, read_errors, echoed,
                   output_format, copy, files_written, json_written,
                   clipboard, env, run, first_run, libVars>>

\* lines 593-594: the prompt was cancelled, SystemExit
CancelSelection ==
    /\ pc = "select"
    /\ filtered_files # <<>>
    /\ Draws("answer", "cancel")
    /\ prompt_answer' = "cancel"
    /\ pc' = "cancelled"
    /\ UNCHANGED <<flagVars, filter_output, selected, filtered_files,
                   secrets_report, tree_view, counter, idx, asm, ref,
                   read_errors, echoed, output_format, copy, files_written,
                   json_written, clipboard, env, run, first_run, libVars>>

\* a cli without the early return of lines 429-431
CheckFiles_NoReturn ==
    /\ pc = "check"
    /\ pc' = "scan"
    /\ UNCHANGED <<flagVars, filter_output, selected, prompt_answer,
                   filtered_files, secrets_report, tree_view, counter, idx,
                   asm, ref, read_errors, echoed, output_format, copy,
                   files_written, json_written, clipboard, env, run,
                   first_run, libVars>>

\* cli lines 429-431
CheckFiles ==
    /\ pc = "check"
    /\ pc' = IF filtered_files = <<>> THEN "exit" ELSE "scan"
    /\ echoed' = IF filtered_files = <<>>
                 THEN echoed \cup {"No files found"} ELSE echoed
    /\ UNCHANGED <<flagVars, filter_output, selected, prompt_answer,
                   filtered_files, secrets_report, tree_view, counter, idx,
                   asm, ref, read_errors, output_format, copy,
                   files_written, json_written, clipboard, env, run,
                   first_run, libVars>>

\* cli lines 433-442: the secret scan, the tree view, --tree-only
TreeStep ==
    /\ pc = "scan"
    /\ \E found \in SUBSET (Range(filtered_files) \cap SecretFiles),
          engine_ok \in BOOLEAN,
          form \in {"root_relative", "as_reported"} :
        /\ Draws("found", found)
        /\ Draws("engine_ok", engine_ok)
        /\ Draws("key_form", form)
        /\ secrets_report' =
              CheckSecurityIssue(filtered_files, found, engine_ok, form)
    /\ \E tree \in BOOLEAN, tree_only \in BOOLEAN :
        /\ Draws("tree", tree)
        /\ Draws("tree_only", tree_only)
        /\ tree_view' = (tree \/ tree_only)
        /\ pc' = IF tree_only THEN "exit" ELSE "generate"
        /\ echoed' = echoed \cup {"Pre-scanning for secrets"}
                        \cup (IF tree_only THEN {"Tree Structure"} ELSE {})
    /\ UNCHANGED <<flagVars, filter_output, selected, prompt_answer,
                   filtered_files, counter, idx, asm, ref, read_errors,
                   output_format, copy, files_written, json_written,
                   clipboard, env, run, first_run, libVars>>

\* generate_context lines 213-266.  When tiktoken fails to initialize the
\* except branch binds nothing, and _count(preliminary_text) at line 253
\* raises UnboundLocalError outside any try
GenerateContextStart ==
    /\ pc = "generate"
    /\ \E tiktoken_ok \in BOOLEAN, tokens \in 0..MaxCost :
        LET cnt == BindCount(count_tokens, tiktoken_ok)
            text == PreliminaryText(prompt_no_header, tree_view)
        IN /\ Draws("tiktoken_ok", tiktoken_ok)
           /\ Draws("tokens", tokens)
           /\ counter' = cnt
           /\ IF cnt = "unbound" /\ text # <<>>
              THEN /\ pc' = "crashed"
                   /\ UNCHANGED <<asm, ref>>
              ELSE /\ pc' = "loop"
                   /\ asm' = WriteHeader(EmptyAsm, text, Count(cnt, tokens))
                   /\ ref' = WriteHeader(EmptyAsm, text, Count(cnt, tokens))
    /\ UNCHANGED <<flagVars, filter_output, selected, prompt_answer,
                   filtered_files, secrets_report, tree_view, idx,
                   read_errors, echoed, output_format, copy, files_written,
                   json_written, clipboard, env, run, first_run, libVars>>

\* generate_context lines 268-324, one iteration of the loop
ProcessNextFile ==
    /\ pc = "loop"
    /\ idx < Len(filtered_files)
    /\ \E outcome \in {"ok", "fail_read", "fail_stat"}, tokens \in 0..MaxCost :
        LET f == filtered_files[idx + 1]
            bt == Count(counter, tokens)
        IN /\ Draws("tokens", tokens)
           /\ env.fixed =>
                outcome = IF f \in env.unreadable THEN "fail_read" ELSE "ok"
           /\ asm' = ProcessFile(asm, f, outcome, bt, max_tokens, warn_tokens,
                                 secrets_report)
           /\ ref' = ProcessFile(ref, f, outcome, bt, 0, warn_tokens,
                                 secrets_report)
           /\ read_errors' = IF outcome = "ok" THEN read_errors
                             ELSE read_errors \cup {f}
    /\ idx' = idx + 1
    /\ UNCHANGED <<pc, flagVars, filter_output, selected, prompt_answer,
                   filtered_files, secrets_report, tree_view, counter,
                   echoed, output_format, copy, files_written, json_written,
                   clipboard, env, run, first_run, libVars>>

\* generate_context lines 326-333
GenerateContextReturn ==
    /\ pc = "loop"
    /\ idx = Len(filtered_files)
    /\ asm' = Finish(asm)
    /\ ref' = Finish(ref)
    /\ pc' = "output"
    /\ UNCHANGED <<flagVars, filter_output, selected, prompt_answer,
                   filtered_files, secrets_report, tree_view, counter, idx,
                   read_errors, echoed, output_format, copy, files_written,
                   json_written, clipboard, env, run, first_run, libVars>>

\* cli lines 455-501
WriteOutput ==
    /\ pc = "output"
    /\ IF asm.context_parts = <<>>
       THEN /\ echoed' = echoed \cup {"Context is empty"}
            /\ UNCHANGED <<output_format, copy, files_written, json_written,
                           clipboard>>
       ELSE \E fmt \in {"text", "json"}, cp \in BOOLEAN :
            /\ Draws("output_format", fmt)
            /\ Draws("copy", cp)
            /\ output_format' = fmt
            /\ copy' = cp
            /\ clipboard' = clipboard \o ClipboardCopies(fmt, cp, asm.context_parts)
            /\ IF fmt = "json"
               THEN /\ json_written' =
                         Append(json_written, BuildJson(asm, tree_view))
                    /\ echoed' = IF cp THEN echoed \cup {"--copy is ignored"}
                                 ELSE echoed
                    /\ UNCHANGED files_written
               ELSE /\ files_written' =
                         files_written \o TextFiles(asm.context_parts)
                    /\ echoed' =
                         IF cp /\ Len(asm.context_parts) > 1
                         THEN echoed \cup {"Only the first was copied"}
                         ELSE echoed
                    /\ UNCHANGED json_written
    /\ pc' = "exit"
    /\ UNCHANGED <<flagVars, filter_output, selected, prompt_answer,
                   filtered_files, secrets_report, tree_view, counter, idx,
                   asm, ref, read_errors, env, run, first_run, libVars>>

Next ==
    \/ FilterProjectFiles
    \/ InteractiveFileSelector
    \/ CancelSelection
    \/ CheckFiles
    \/ TreeStep
    \/ GenerateContextStart
    \/ ProcessNextFile
    \/ GenerateContextReturn
    \/ WriteOutput

Spec == Init /\ [][Next]_vars

\* ---- two runs in succession, on an unchanged tree with unchanged flags ----
\* What the project tree, the user and the libraries answer is fixed before
\* the first run and is the same in both runs.  What no input determines,
\* the iteration order of the set that interactive_file_selector returns,
\* stays free in each run.

InitTwice ==
    /\ StartOfRun
    /\ interactive \in BOOLEAN
    /\ prompt_no_header = FALSE
    /\ count_tokens \in BOOLEAN
    /\ max_tokens \in 0..MaxBudget
    /\ warn_tokens = 0
    /\ \E n \in 0..MaxFiles, picked \in SUBSET (1..MaxFiles),
          answer \in {"confirm", "cancel"}, tree_only \in BOOLEAN,
          tokens \in 0..MaxCost, unreadable \in {{}, {1}},
          fmt \in {"text", "json"} :
        env = [FreeEnv EXCEPT !.fixed = TRUE, !.n = n, !.picked = picked,
                              !.answer = answer, !.tree_only = tree_only,
                              !.tokens = tokens, !.unreadable = unreadable,
                              !.output_format = fmt]
    /\ run = 1
    /\ first_run = NoRun
    /\ LibIdle

\* the first process has ended: cli is started again, lines 339-424
RunAgain ==
    /\ run = 1
    /\ pc \in {"exit", "cancelled", "crashed"}
    /\ first_run' = [files_written |-> files_written,
                     json_written |-> json_written, clipboard |-> clipboard]
    /\ run' = 2
    /\ pc' = "filter"
    /\ filter_output' = <<>>
    /\ selected' = {}
    /\ prompt_answer' = "none"
    /\ filtered_files' = <<>>
    /\ secrets_report' = <<>>
    /\ tree_view' = FALSE
    /\ counter' = "none"
    /\ idx' = 0
    /\ asm' = EmptyAsm
    /\ ref' = EmptyAsm
    /\ read_errors' = {}
    /\ echoed' = {}
    /\ output_format' = "none"
    /\ copy' = FALSE
    /\ files_written' = <<>>
    /\ json_written' = <<>>
    /\ clipboard' = <<>>
    /\ UNCHANGED <<flagVars, env, libVars>>

NextTwice == Next \/ RunAgain

SpecTwice == InitTwice /\ [][NextTwice]_vars


\* ---- load_ignore_patterns, filter_project_files, called on their own ----
\* A line of an ignore file and a pattern are sequences of characters.  The
\* project tree has four entries, named by one character each; a pattern
\* <<"a">> is the gitignore pattern matching entry a, <<"!", "a">> its
\* negation.  A file name is a sequence of pieces, the last its extension.

\* stand-in for _DEFAULT_EXCLUDE_PATTERNS, lines 25-40: it matches entry d
DEFAULT_EXCLUDE_PATTERNS == << <<"d">> >>

\* stand-in for the built-in suffix list of lines 141-158
DefaultIncludeExtensions == << <<".py">>, <<"Dockerfile">> >>

\* what root_dir.rglob("*") can yield, in traversal order
TreeEntries ==
    << [key |-> "a", kind |-> "file", name |-> <<"a", ".py">>],
       [key |-> "b", kind |-> "file", name |-> <<"b", ".txt">>],
       [key |-> "c", kind |-> "dir", name |-> <<"c", ".py">>],
       [key |-> "d", kind |-> "file", name |-> <<"d", ".py">>] >>

Whitespace == {" ", "\n"}

\* a strip that removes trailing whitespace only
RECURSIVE Strip_Right(_)
Strip_Right(line) ==
    IF line = <<>> THEN <<>>
    ELSE IF line[Len(line)] \in Whitespace
         THEN Strip_Right(SubSeq(line, 1, Len(line) - 1))
         ELSE line

\* line.strip(), line 119
RECURSIVE Strip(_)
Strip(line) ==
    IF line = <<>> THEN <<>>
    ELSE IF Head(line) \in Whitespace THEN Strip(Tail(line))
    ELSE IF line[Len(line)] \in Whitespace
         THEN Strip(SubSeq(line, 1, Len(line) - 1))
         ELSE line

\* lines 119-122
CleanLines(lines) ==
    SelectSeq([i \in 1..Len(lines) |-> Strip(lines[i])],
              LAMBDA l : l # <<>> /\ l[1] # "#")

\* lines 115-126, for one ignore file
PatternsOf(file) ==
    IF file.present /\ file.readable THEN CleanLines(file.lines) ELSE <<>>

\* lines 111-127
LoadIgnorePatterns(root) ==
    DEFAULT_EXCLUDE_PATTERNS \o PatternsOf(root.gitignore)
        \o PatternsOf(root.contextignore)

\* pathspec, gitwildmatch: does pattern p name entry e, and does it include
PatternHits(p, e) ==
    \/ p = <<e.key>>
    \/ p = <<"!", e.key>>

\* spec.match_file: the last pattern that names the entry decides
RECURSIVE MatchFile(_, _)
MatchFile(patterns, e) ==
    IF patterns = <<>> THEN FALSE
    ELSE LET p == patterns[Len(patterns)]
         IN IF PatternHits(p, e) THEN p[1] # "!"
            ELSE MatchFile(SubSeq(patterns, 1, Len(patterns) - 1), e)

\* path.name.endswith(ext), line 166
EndsWith(name, ext) ==
    /\ Len(ext) <= Len(name)
    /\ SubSeq(name, Len(name) - Len(ext) + 1, Len(name)) = ext

\* an allow-list that is added to the built-in list
FinalIncludeExtensions_Added(include_extensions) ==
    include_extensions \o DefaultIncludeExtensions

\* lines 141-158
FinalIncludeExtensions(include_extensions) ==
    IF include_extensions # <<>> THEN include_extensions
    ELSE DefaultIncludeExtensions

\* lines 160-170
FilterFiles(entries, all_patterns, include_extensions) ==
    LET all_files == SelectSeq(entries, LAMBDA e : e.kind = "file")
        exts == FinalIncludeExtensions(include_extensions)
    IN SelectSeq(all_files,
                 LAMBDA e : /\ ~MatchFile(all_patterns, e)
                            /\ \E i \in 1..Len(exts) : EndsWith(e.name, exts[i]))

\* the lines an ignore file can hold
RawLines ==
    { <<" ", "\n">>, <<" ", "#", "\n">>, <<"a", "\n">>, <<" ", "b", " ">>,
      <<"!", "a", "\n">> }

SeqsUpTo(S, n) == UNION {[1..k -> S] : k \in 0..n}

IgnoreFiles ==
    { [present |-> FALSE, readable |-> FALSE, lines |-> <<>>],
      [present |-> TRUE, readable |-> FALSE, lines |-> <<>>] }
    \cup { [present |-> TRUE, readable |-> TRUE, lines |-> l] :
             l \in SeqsUpTo(RawLines, MaxLines) }

\* the variables of cli, untouched by a direct call of a library function
CliIdle ==
    /\ StartOfRun
    /\ interactive = FALSE
    /\ prompt_no_header = FALSE
    /\ count_tokens = FALSE
    /\ max_tokens = 0
    /\ warn_tokens = 0
    /\ env = FreeEnv
    /\ run = 1
    /\ first_run = NoRun

InitFilter ==
    /\ CliIdle
    /\ lib_pc = "load"
    /\ \E g \in IgnoreFiles, c \in IgnoreFiles,
          x \in SeqsUpTo({<<"a">>, <<"!", "a">>, <<"b">>}, 1),
          ext \in {<<>>, << <<".txt">> >>} :
        lib_in = [gitignore |-> g, contextignore |-> c,
                  exclude_cli_patterns |-> x, include_extensions |-> ext,
                  entries |-> TreeEntries]
    /\ lib_out = [all_patterns |-> <<>>, filtered_files |-> <<>>]

\* filter_project_files lines 137-138
LoadPatterns ==
    /\ lib_pc = "load"
    /\ lib_out' = [lib_out EXCEPT !.all_patterns =
                      LoadIgnorePatterns(lib_in) \o lib_in.exclude_cli_patterns]
    /\ lib_pc' = "match"
    /\ UNCHANGED <<cliVars, lib_in>>

\* filter_project_files lines 139-170
MatchFiles ==
    /\ lib_pc = "match"
    /\ lib_out' = [lib_out EXCEPT !.filtered_files =
                      FilterFiles(lib_in.entries, lib_out.all_patterns,
                                  lib_in.include_extensions)]
    /\ lib_pc' = "done"
    /\ UNCHANGED <<cliVars, lib_in>>

NextFilter == LoadPatterns \/ MatchFiles

SpecFilter == InitFilter /\ [][NextFilter]_vars

\* ---- generate_tree_view, called on its own ----
\* A relative path is the sequence of its parts; a part is a name.  The
\* nested dict of lines 175-183 is the sequence of the keys created, each
\* with the keys above it, in creation order: the keys of one dict are then
\* listed in insertion order, as Python lists them.

\* The box-drawing connectors are written in ASCII: "|-- " for U+251C U+2500
\* U+2500 and a space, "+-- " for U+2514 U+2500 U+2500 and a space, "|   "
\* for U+2502 and three spaces.

\* the names, in ascending order of their text
Names == <<"a", "b">>

Rank(name) == CHOOSE i \in 1..Len(Names) : Names[i] = name

\* lines 180-183
RECURSIVE InsertParts(_, _, _)
InsertParts(tree, parts, k) ==
    IF k > Len(parts) THEN tree
    ELSE LET key == SubSeq(parts, 1, k)
         IN InsertParts(IF key \in Range(tree) THEN tree ELSE Append(tree, key),
                        parts, k + 1)

\* lines 175-183
RECURSIVE BuildTree(_, _)
BuildTree(tree, files) ==
    IF files = <<>> THEN tree
    ELSE BuildTree(InsertParts(tree, Head(files), 1), Tail(files))

\* structure.keys() of the dict at node, in insertion order
Keys(tree, node) ==
    LET below == SelectSeq(tree, LAMBDA p : /\ Len(p) = Len(node) + 1
                                            /\ SubSeq(p, 1, Len(node)) = node)
    IN [i \in 1..Len(below) |-> below[i][Len(node) + 1]]

\* the keys as the dict lists them
Items_Unsorted(keys) == keys

\* sorted(structure.keys()), line 188
Items(keys) == SortSeq(keys, LAMBDA x, y : Rank(x) < Rank(y))

\* lines 187-194: the lines of the items from the i-th on
RECURSIVE BuildTreeLines(_, _, _, _)
BuildTreeLines(tree, node, prefix, i) ==
    LET items == Items(Keys(tree, node))
    IN IF i > Len(items) THEN <<>>
       ELSE LET name == items[i]
                last == i = Len(items)
                connector == IF last THEN "+-- " ELSE "|-- "
                extension == IF last THEN "    " ELSE "|   "
                child == Append(node, name)
            IN << prefix \o <<connector, name>> >>
               \o (IF Keys(tree, child) # <<>>
                   THEN BuildTreeLines(tree, child, Append(prefix, extension), 1)
                   ELSE <<>>)
               \o BuildTreeLines(tree, node, prefix, i + 1)

\* "\n".join(tree_lines), line 198
RECURSIVE Join(_)
Join(lines) ==
    IF lines = <<>> THEN <<>>
    ELSE IF Len(lines) = 1 THEN lines[1]
    ELSE lines[1] \o <<"\n">> \o Join(Tail(lines))

\* lines 173-198
GenerateTreeView(root_name, files) ==
    Join(<< <<root_name, "/">> >>
         \o BuildTreeLines(BuildTree(<<>>, files), <<>>, <<>>, 1))

\* the relative paths of files: no file lies below another file
TreePaths == UNION {[1..k -> Range(Names)] : k \in 1..2}

IsFileList(files) ==
    \A i, j \in 1..Len(files) :
        ~(/\ Len(files[i]) < Len(files[j])
          /\ SubSeq(files[j], 1, Len(files[i])) = files[i])

FileLists ==
    {l \in UNION {[1..k -> TreePaths] : k \in 1..MaxTreeFiles} : IsFileList(l)}

InitTree ==
    /\ CliIdle
    /\ lib_pc = "tree"
    /\ \E l1 \in FileLists, l2 \in FileLists :
        /\ Range(l1) = Range(l2)
        /\ lib_in = [root_name |-> "root", lists |-> <<l1, l2>>]
    /\ lib_out = [rendered |-> <<>>]

\* one call of generate_tree_view, on the next list
RenderTree ==
    /\ lib_pc = "tree"
    /\ LET k == Len(lib_out.rendered) + 1
       IN /\ lib_out' = [rendered |-> Append(lib_out.rendered,
                            GenerateTreeView(lib_in.root_name, lib_in.lists[k]))]
          /\ lib_pc' = IF k = Len(lib_in.lists) THEN "done" ELSE "tree"
    /\ UNCHANGED <<cliVars, lib_in>>

NextTree == RenderTree

SpecTree == InitTree /\ [][NextTree]_vars

\* ---- build_and_write_json, called on its own ----
\* The metadata it is given names every path at most once; a part may be
\* empty; an entry may carry findings whatever its path.

\* a metadata entry as generate_context builds it
MetaEntry(path, flagged) ==
    [path |-> path,
     sha256 |-> Sha256Text(<< <<"CONTENT", path>> >>),
     estimated_tokens |-> 1,
     potential_secrets |-> IF flagged THEN Findings(path) ELSE <<>>]

\* the entries in the order given, those with cut[k] = i in part i
PartsMeta(order, flagged, cut, n) ==
    [i \in 1..n |->
        [files |->
            LET at == SelectSeq([k \in 1..Len(order) |-> k],
                                LAMBDA k : cut[k] = i)
            IN [j \in 1..Len(at) |->
                   MetaEntry(order[at[j]], order[at[j]] \in flagged)]]]

InitJson ==
    /\ CliIdle
    /\ lib_pc = "json"
    /\ \E S \in SUBSET (0..MaxFiles), n \in 1..(MaxFiles + 1) :
       \E order \in Orders(S), flagged \in SUBSET S :
       \E cut \in [1..Len(order) -> 1..n] :
        /\ \A k \in 1..(Len(order) - 1) : cut[k] <= cut[k + 1]
        /\ LET pm == PartsMeta(order, flagged, cut, n)
           IN lib_in = [parts_meta |-> pm,
                        token_counts |->
                            [i \in 1..n |-> SumSeq([j \in 1..Len(pm[i].files) |->
                                       pm[i].files[j].estimated_tokens])],
                        tree_str |-> FALSE]
    /\ lib_out = [json |-> <<>>]

\* build_and_write_json lines 58-108
BuildAndWriteJson ==
    /\ lib_pc = "json"
    /\ lib_out' = [json |-> << BuildJson(lib_in, lib_in.tree_str) >>]
    /\ lib_pc' = "done"
    /\ UNCHANGED <<cliVars, lib_in>>

NextJson == BuildAndWriteJson

SpecJson == InitJson /\ [][NextJson]_vars

TypeOK ==
    /\ pc \in {"filter", "select", "check", "scan", "generate", "loop",
               "output", "exit", "cancelled", "crashed"}
    /\ idx \in 0..Len(filtered_files)
    /\ counter \in {"none", "tiktoken", "zero", "unbound"}
    /\ Len(asm.context_parts) = Len(asm.token_counts)
    /\ Len(asm.context_parts) = Len(asm.parts_meta)

\* ---- properties ----

\* generate_context has returned and cli has not yet written anything
Returned == pc = "output"

\* the metadata lists of the finished parts, in order
PartFiles(st) == [i \in 1..Len(st.parts_meta) |-> st.parts_meta[i].files]

\* the paths of the real files of a metadata list, in order
PathsOf(files) ==
    [i \in 1..Len(RealFiles(files)) |-> RealFiles(files)[i].path]

\* the file paths read off part 1, then part 2, ...
PlacedPaths(st) == PathsOf(Flatten(PartFiles(st)))

\* the files of s that are in S, in the order of s
Restrict(s, S) == SelectSeq(s, LAMBDA f : f \in S)

Costs(files) == [i \in 1..Len(files) |-> files[i].estimated_tokens]

\* C1, as stated: with a budget, every returned part is within the budget or
\* holds exactly one block, that block costing more than the budget.
CX_C1 ==
    (Returned /\ max_tokens > 0) =>
        \A i \in 1..Len(asm.context_parts) :
            \/ asm.token_counts[i] <= max_tokens
            \/ /\ Len(asm.parts_meta[i].files) = 1
               /\ asm.parts_meta[i].files[1].estimated_tokens > max_tokens

\* C1, amended: with a budget, every returned part is within the budget or
\* ends with one block costing more than the budget that is preceded in the
\* part by zero-cost blocks only; and every file read without error is in
\* some part, whatever its cost.
Thm_C1 ==
    (Returned /\ max_tokens > 0) =>
        /\ \A i \in 1..Len(asm.context_parts) :
            LET files == asm.parts_meta[i].files
                k == Len(files)
            IN \/ asm.token_counts[i] <= max_tokens
               \/ /\ k >= 1
                  /\ files[k].estimated_tokens > max_tokens
                  /\ \A j \in 1..(k - 1) : files[j].estimated_tokens = 0
        /\ Range(PlacedPaths(asm)) = Range(filtered_files) \ read_errors

\* a part over the budget was returned in a run that was split
Wit_C1 ==
    /\ Returned
    /\ max_tokens > 0
    /\ Len(asm.context_parts) >= 2
    /\ \E i \in 1..Len(asm.context_parts) : asm.token_counts[i] > max_tokens

\* C2: every returned part has at least one entry in its metadata list.
CX_C2 ==
    Returned =>
        \A i \in 1..Len(asm.parts_meta) : Len(asm.parts_meta[i].files) >= 1

\* C3: the file paths read off the parts in order are the File Filter's
\* output restricted to the selected files, in the filter's order (stated
\* for the runs in which no file fails to be read).
CX_C3 ==
    (Returned /\ read_errors = {}) =>
        PlacedPaths(asm) = Restrict(filter_output, selected)

\* C4: with a budget, the part texts concatenated in order are the text of
\* the single part of the same call with splitting disabled, and the part
\* token counts add up to that part's token count.
Thm_C4 ==
    (Returned /\ max_tokens > 0) =>
        /\ Len(ref.context_parts) = 1
        /\ Flatten(asm.context_parts) = ref.context_parts[1]
        /\ SumSeq(asm.token_counts) = ref.token_counts[1]

\* a split run in which a file also failed
Wit_C4 ==
    /\ Returned
    /\ max_tokens > 0
    /\ Len(asm.context_parts) >= 2
    /\ read_errors # {}

\* the pieces of a text that belong to a file
FilesInText(text) == {text[i][2] : i \in 1..Len(text)} \ {0}

\* finished parts plus the part being built (the part being built is already
\* among the finished ones once generate_context has returned)
PartsSoFar(st) ==
    IF pc = "loop"
    THEN [context_parts |-> Append(st.context_parts, st.current_part_builder),
          token_counts |-> Append(st.token_counts, st.current_token_count),
          parts_meta |-> Append(st.parts_meta,
                                [files |-> st.current_part_files_meta])]
    ELSE [context_parts |-> st.context_parts,
          token_counts |-> st.token_counts,
          parts_meta |-> st.parts_meta]

\* C5: a file that failed has no text, no metadata entry and no tokens in
\* any part; the files iterated so far that did not fail are all placed, in
\* order; a failure never ends the run, and the loop reaches the last file.
Thm_C5 ==
    /\ read_errors # {} => pc \in {"loop", "output", "exit"}
    /\ pc \in {"loop", "output"} =>
        LET p == PartsSoFar(asm)
        IN /\ PlacedPaths(p) =
                Restrict(SubSeq(filtered_files, 1, idx),
                         Range(filtered_files) \ read_errors)
           /\ FilesInText(Flatten(p.context_parts)) \cap read_errors = {}
           /\ SumSeq(p.token_counts) = SumSeq(Costs(Flatten(PartFiles(p))))
           /\ \A i \in 1..Len(p.parts_meta) :
                p.token_counts[i] = SumSeq(Costs(p.parts_meta[i].files))
           /\ pc = "output" => idx = Len(filtered_files)

\* a file failed and a later file of the list was placed
Wit_C5 ==
    /\ Returned
    /\ \E i, j \in 1..Len(filtered_files) :
        /\ i < j
        /\ filtered_files[i] \in read_errors
        /\ filtered_files[j] \in Range(PlacedPaths(asm))
        /\ filtered_files[i] # filtered_files[j]

\* C6: when token counting is requested and tiktoken fails to initialize,
\* the run does not abort; it ends with every token count zero and an output
\* written.
CX_C6 ==
    counter = "unbound" =>
        /\ pc # "crashed"
        /\ pc = "exit" =>
            /\ files_written # <<>> \/ json_written # <<>>
            /\ \A i \in 1..Len(asm.token_counts) : asm.token_counts[i] = 0

\* the text C7 expects for one file
ExpectedBlock(f) ==
    << <<"FILE_HDR", f>>, NL, NL, <<"CONTENT", f>>, NL, NL >>

\* C7: header suppressed, no tree, no budget: one part, whose text is the
\* expected blocks of the files in order and nothing else.
CX_C7 ==
    (Returned /\ prompt_no_header /\ ~tree_view /\ max_tokens = 0
        /\ read_errors = {}) =>
        /\ Len(asm.context_parts) = 1
        /\ asm.context_parts[1] =
             Flatten([i \in 1..Len(filtered_files) |->
                         ExpectedBlock(filtered_files[i])])

\* C8: header suppressed, every block costing the same c, c <= max_tokens
\* < 2c: n files give n parts, the i-th file alone in part i.
CX_C8 ==
    (Returned /\ prompt_no_header /\ ~tree_view /\ read_errors = {}
        /\ \E c \in 1..MaxCost :
            /\ c <= max_tokens
            /\ max_tokens < 2 * c
            /\ \A i \in 1..Len(asm.parts_meta) :
                \A j \in 1..Len(asm.parts_meta[i].files) :
                    asm.parts_meta[i].files[j].estimated_tokens = c) =>
        /\ Len(asm.context_parts) = Len(filtered_files)
        /\ \A i \in 1..Len(asm.context_parts) :
            PathsOf(asm.parts_meta[i].files) = <<filtered_files[i]>>

\* C9: the threshold warning is emitted at most once in a run.
Thm_C9 == asm.threshold_warnings <= 1

\* two parts went over warn_tokens and the warning was emitted
Wit_C9 ==
    /\ Returned
    /\ warn_tokens > 0
    /\ asm.threshold_warnings = 1
    /\ \E i, j \in 1..Len(asm.token_counts) :
        /\ i # j
        /\ asm.token_counts[i] > warn_tokens
        /\ asm.token_counts[j] > warn_tokens

\* C10: the threshold warning is emitted in every run whose total token
\* count exceeds warn_tokens (stated for the runs in which no file fails to
\* be read).
CX_C10 ==
    (Returned /\ warn_tokens > 0 /\ read_errors = {}
        /\ SumSeq(asm.token_counts) > warn_tokens) =>
        asm.threshold_warnings >= 1

NothingWritten ==
    /\ files_written = <<>>
    /\ json_written = <<>>
    /\ clipboard = <<>>

\* C11: for every file placed in a part for which the classifier reported
\* findings, the file's metadata entry carries exactly those findings.
CX_C11 ==
    Returned =>
        \A i \in 1..Len(asm.parts_meta) :
            \A j \in 1..Len(asm.parts_meta[i].files) :
                \A k \in DOMAIN secrets_report :
                    k[2] = asm.parts_meta[i].files[j].path =>
                        asm.parts_meta[i].files[j].potential_secrets =
                            secrets_report[k]

\* C12: the file_count of the JSON document is the number of distinct real
\* files named in the metadata of its parts.
Thm_C12 ==
    \A d \in 1..Len(json_written) :
        json_written[d].file_count =
            Cardinality({e \in UNION {Range(json_written[d].parts[i].files) :
                                        i \in 1..Len(json_written[d].parts)} :
                            e.path # HEADER_PATH})

\* a JSON document of two parts naming two files was written
Wit_C12 ==
    /\ pc = "exit"
    /\ Len(json_written) = 1
    /\ Len(json_written[1].parts) >= 2
    /\ json_written[1].file_count = 2

\* C17: in text mode one part is written to the output path and nothing
\* else; k > 1 parts are written to k files <base>-part-<n><ext>, the n-th
\* holding the n-th part, and nothing is written to the output path.
Thm_C17 ==
    (pc = "exit" /\ output_format = "text") =>
        LET k == Len(asm.context_parts)
        IN /\ json_written = <<>>
           /\ Len(files_written) = k
           /\ k = 1 => files_written[1] =
                         [name |-> <<"output", 0>>, text |-> asm.context_parts[1]]
           /\ k > 1 => \A n \in 1..k :
                         files_written[n] =
                           [name |-> <<"part", n>>, text |-> asm.context_parts[n]]

\* a split text output was written
Wit_C17 ==
    /\ pc = "exit"
    /\ output_format = "text"
    /\ Len(asm.context_parts) >= 2
    /\ Len(files_written) >= 2

\* C18: in JSON mode exactly one document is written, no text file is
\* written and nothing is copied to the clipboard, --copy or not.
Thm_C18 ==
    (pc = "exit" /\ output_format = "json") =>
        /\ Len(json_written) = 1
        /\ files_written = <<>>
        /\ clipboard = <<>>

\* a JSON run of several parts with --copy
Wit_C18 ==
    /\ pc = "exit"
    /\ output_format = "json"
    /\ copy
    /\ Len(asm.context_parts) >= 2
    /\ "--copy is ignored" \in echoed

\* C19: once the prompt is cancelled the run is over with a non-zero status:
\* no scan, no assembly, nothing written; an empty result ends with status 0.
Thm_C19 ==
    /\ prompt_answer = "cancel" =>
        /\ pc = "cancelled"
        /\ ExitStatus(pc) # 0
        /\ "Pre-scanning for secrets" \notin echoed
        /\ counter = "none"
        /\ asm = EmptyAsm
        /\ NothingWritten
    /\ "No files found" \in echoed => ExitStatus(pc) = 0

\* the prompt was cancelled
Wit_C19 ==
    /\ prompt_answer = "cancel"
    /\ pc = "cancelled"
    /\ filter_output # <<>>

\* C20: with no file left after filtering or selection the run ends
\* normally with a warning, without scan, assembly or output.
Thm_C20 ==
    (pc \notin {"filter", "select", "check"} /\ filtered_files = <<>>) =>
        /\ pc = "exit"
        /\ ExitStatus(pc) = 0
        /\ "No files found" \in echoed
        /\ "Pre-scanning for secrets" \notin echoed
        /\ counter = "none"
        /\ asm = EmptyAsm
        /\ NothingWritten

\* the filter kept files and the selection returned none
Wit_C20 ==
    /\ pc = "exit"
    /\ filtered_files = <<>>
    /\ filter_output # <<>>
    /\ prompt_answer = "confirm"

\* ---- filter_project_files and load_ignore_patterns ----

\* a line without the whitespace around it
Trimmed(line) ==
    LET solid == {i \in 1..Len(line) : line[i] \notin Whitespace}
    IN IF solid = {} THEN <<>>
       ELSE SubSeq(line, CHOOSE i \in solid : \A j \in solid : i <= j,
                         CHOOSE i \in solid : \A j \in solid : j <= i)

IsRule(line) == Trimmed(line) # <<>> /\ Trimmed(line)[1] # "#"

\* the rules an ignore file holds, in the order of its lines
RulesOf(file) ==
    IF ~file.present \/ ~file.readable THEN <<>>
    ELSE LET kept == SelectSeq(file.lines, IsRule)
         IN [i \in 1..Len(kept) |-> Trimmed(kept[i])]

MergedRules ==
    DEFAULT_EXCLUDE_PATTERNS \o RulesOf(lib_in.gitignore)
        \o RulesOf(lib_in.contextignore) \o lib_in.exclude_cli_patterns

\* gitignore semantics: the last rule that names the entry decides
Ignored(rules, e) ==
    \E i \in 1..Len(rules) :
        /\ rules[i] = <<e.key>>
        /\ \A j \in (i + 1)..Len(rules) : rules[j] # <<"!", e.key>>

AllowedSuffixes ==
    IF lib_in.include_extensions # <<>> THEN Range(lib_in.include_extensions)
    ELSE Range(DefaultIncludeExtensions)

HasSuffix(name, ext) ==
    \E k \in 0..Len(name) : SubSeq(name, k + 1, Len(name)) = ext

Kept(e) == \E i \in 1..Len(lib_out.filtered_files) : lib_out.filtered_files[i] = e

FilterDone == lib_pc = "done" /\ "entries" \in DOMAIN lib_in

\* C14: filter_project_files keeps an entry exactly when it is a regular
\* file, the merged rules (defaults, .gitignore, .contextignore, CLI
\* excludes) do not ignore it and its name ends with an allowed suffix; a
\* non-empty allow-list replaces the built-in list.
Thm_C14 ==
    FilterDone =>
        \A i \in 1..Len(lib_in.entries) :
            LET e == lib_in.entries[i]
            IN Kept(e) <=> /\ e.kind = "file"
                           /\ ~Ignored(MergedRules, e)
                           /\ \E ext \in AllowedSuffixes : HasSuffix(e.name, ext)

\* an explicit allow-list keeps b.txt and drops a.py, which no rule ignores,
\* while a rule of an ignore file is in force
Wit_C14 ==
    /\ FilterDone
    /\ lib_in.include_extensions # <<>>
    /\ Kept(TreeEntries[2])
    /\ ~Kept(TreeEntries[1])
    /\ ~Ignored(MergedRules, TreeEntries[1])
    /\ Len(MergedRules) > Len(DEFAULT_EXCLUDE_PATTERNS)

FromIgnoreFiles ==
    SubSeq(lib_out.all_patterns, Len(DEFAULT_EXCLUDE_PATTERNS) + 1,
           Len(lib_out.all_patterns) - Len(lib_in.exclude_cli_patterns))

\* C15: the rule list used for filtering is the defaults, then the cleaned
\* lines of .gitignore, then those of .contextignore, then the CLI patterns;
\* nothing taken from an ignore file is blank or starts with '#', and an
\* absent ignore file contributes nothing.
Thm_C15 ==
    ("entries" \in DOMAIN lib_in /\ lib_pc \in {"match", "done"}) =>
        /\ lib_out.all_patterns = MergedRules
        /\ \A i \in 1..Len(FromIgnoreFiles) :
              /\ FromIgnoreFiles[i] # <<>>
              /\ FromIgnoreFiles[i][1] \notin Whitespace \cup {"#"}
        /\ (~lib_in.gitignore.present /\ ~lib_in.contextignore.present) =>
              FromIgnoreFiles = <<>>
        /\ ~lib_in.contextignore.present =>
              FromIgnoreFiles = RulesOf(lib_in.gitignore)

\* .gitignore holds an indented comment and a rule, .contextignore a blank
\* line and a rule, and a CLI pattern follows them
Wit_C15 ==
    /\ FilterDone
    /\ lib_in.gitignore.lines = << <<" ", "#", "\n">>, <<"a", "\n">> >>
    /\ lib_in.contextignore.lines = << <<" ", "\n">>, <<" ", "b", " ">> >>
    /\ lib_in.exclude_cli_patterns = << <<"!", "a">> >>
    /\ lib_out.all_patterns = << <<"d">>, <<"a">>, <<"b">>, <<"!", "a">> >>


\* ---- generate_tree_view ----

\* the files and directories of a set of paths
Nodes(S) == UNION {{SubSeq(p, 1, k) : k \in 1..Len(p)} : p \in S}

SameParent(p, q) ==
    Len(p) = Len(q) /\ SubSeq(p, 1, Len(p) - 1) = SubSeq(q, 1, Len(q) - 1)

IsLastSibling(S, p) ==
    \A q \in Nodes(S) : SameParent(p, q) => Rank(q[Len(q)]) <= Rank(p[Len(p)])

\* depth first, the siblings of a level ascending
PathBefore(p, q) ==
    \E k \in 1..Len(q) :
        /\ k <= Len(p) + 1
        /\ SubSeq(p, 1, k - 1) = SubSeq(q, 1, k - 1)
        /\ k <= Len(p) => Rank(p[k]) < Rank(q[k])

RECURSIVE InOrder(_)
InOrder(N) ==
    IF N = {} THEN <<>>
    ELSE LET first == CHOOSE p \in N : \A q \in N \ {p} : PathBefore(p, q)
         IN <<first>> \o InOrder(N \ {first})

LineOf(S, p) ==
    [k \in 1..(Len(p) - 1) |->
        IF IsLastSibling(S, SubSeq(p, 1, k)) THEN "    " ELSE "|   "]
    \o <<IF IsLastSibling(S, p) THEN "+-- " ELSE "|-- ", p[Len(p)]>>

ExpectedTree(root_name, S) ==
    LET order == InOrder(Nodes(S))
    IN Join(<< <<root_name, "/">> >>
            \o [i \in 1..Len(order) |-> LineOf(S, order[i])])

TreeDone == lib_pc = "done" /\ "lists" \in DOMAIN lib_in

\* C16: two lists holding the same set of files render the same text; its
\* first line is the root name followed by '/', and below it every level
\* lists its siblings in ascending order, the last with the corner
\* connector and the others with the tee connector.
Thm_C16 ==
    TreeDone =>
        /\ Range(lib_in.lists[1]) = Range(lib_in.lists[2])
        /\ lib_out.rendered[1] = lib_out.rendered[2]
        /\ SubSeq(lib_out.rendered[1], 1, 2) = <<lib_in.root_name, "/">>
        /\ Len(lib_out.rendered[1]) > 2 => lib_out.rendered[1][3] = "\n"
        /\ lib_out.rendered[1] =
              ExpectedTree(lib_in.root_name, Range(lib_in.lists[1]))

\* one list names a/b before a/a and repeats it, the other does neither
Wit_C16 ==
    /\ TreeDone
    /\ lib_in.lists[1] = << <<"a", "b">>, <<"a", "a">>, <<"a", "b">> >>
    /\ lib_in.lists[2] = << <<"a", "a">>, <<"a", "b">> >>
    /\ lib_out.rendered[2] =
          <<"root", "/", "\n", "+-- ", "a", "\n", "    ", "|-- ", "a", "\n",
            "    ", "+-- ", "b">>


\* ---- two runs ----

\* the content hash a JSON document records for each file
FileHashes(docs) ==
    UNION {UNION {{<<f.path, f.sha256>> : f \in Range(docs[d].parts[i].files)} :
                     i \in 1..Len(docs[d].parts)} : d \in 1..Len(docs)}

\* C13: the second of two runs with the same flags on the same tree writes
\* the same text files, byte for byte, and records the same content hash
\* for every file in JSON mode.
CX_C13 ==
    (run = 2 /\ pc = "exit") =>
        /\ files_written = first_run.files_written
        /\ FileHashes(json_written) = FileHashes(first_run.json_written)


\* ---- splitting and bookkeeping ----

\* the files generate_context was given that raised nothing, in order
ReadFiles == Restrict(filtered_files, Range(filtered_files) \ read_errors)

\* C21: without a budget (max_tokens absent or 0), or with token counting
\* disabled (every cost 0), no part is finalized before the end of the file
\* list, and what generate_context returns is one part holding every file
\* that was read.
Thm_C21 ==
    (max_tokens = 0 \/ counter = "zero") =>
        /\ pc = "loop" => asm.context_parts = <<>>
        /\ pc \in {"output", "exit"} /\ counter # "none" =>
              /\ Len(asm.context_parts) = 1
              /\ PathsOf(asm.parts_meta[1].files) = ReadFiles
              /\ FilesInText(asm.context_parts[1]) = Range(ReadFiles)

\* without a budget two files were read and returned in one part, whose
\* count is above every budget of the model
Wit_C21 ==
    /\ Returned
    /\ Len(ReadFiles) = 2
    /\ Len(asm.context_parts) = 1
    /\ max_tokens = 0
    /\ counter = "tiktoken"
    /\ asm.token_counts[1] > MaxBudget

\* C23: for every two consecutive returned parts, the token count of the
\* earlier plus the cost of the first block of the later exceeds max_tokens.
CX_C23 ==
    Returned =>
        \A i \in 1..(Len(asm.parts_meta) - 1) :
            asm.parts_meta[i + 1].files # <<>> =>
                asm.token_counts[i]
                  + asm.parts_meta[i + 1].files[1].estimated_tokens > max_tokens

\* C24: generate_context returns at least one part, the branch of cli that
\* reports an empty context is never taken, and once the assembly has
\* started the run ends with an output written.
CX_C24 ==
    /\ Returned => Len(asm.context_parts) >= 1
    /\ "Context is empty" \notin echoed
    /\ (counter # "none" /\ pc \notin {"loop", "output"}) =>
          (files_written # <<>> \/ json_written # <<>>)

\* the estimated_tokens of all entries of all parts of a JSON document
DocTokens(doc) ==
    SumSeq([i \in 1..Len(doc.parts) |-> SumSeq(Costs(doc.parts[i].files))])

\* C25: at every point the three result lists have one length, the token
\* count of every part, finished or being built, is the sum of the
\* estimated_tokens of its metadata entries, and total_estimated_tokens of a
\* JSON document is that sum over all its parts.
Thm_C25 ==
    /\ Len(asm.context_parts) = Len(asm.token_counts)
    /\ Len(asm.token_counts) = Len(asm.parts_meta)
    /\ \A i \in 1..Len(asm.parts_meta) :
          asm.token_counts[i] = SumSeq(Costs(asm.parts_meta[i].files))
    /\ asm.current_token_count = SumSeq(Costs(asm.current_part_files_meta))
    /\ \A d \in 1..Len(json_written) :
          json_written[d].total_estimated_tokens = DocTokens(json_written[d])

\* a JSON document of two parts, each with a count above 0
Wit_C25 ==
    /\ pc = "exit"
    /\ Len(json_written) = 1
    /\ Len(json_written[1].parts) = 2
    /\ \A i \in 1..2 : json_written[1].parts[i].estimated_tokens > 0
    /\ json_written[1].total_estimated_tokens > MaxBudget

\* how often a piece occurs in the texts of the parts
Occurrences(texts, piece) ==
    SumSeq([i \in 1..Len(texts) |->
               Cardinality({k \in 1..Len(texts[i]) : texts[i][k] = piece})])

\* C26: over the finished parts and the part being built, the header entry
\* occurs at most once, as the first entry of the first part, and the
\* header's text is not repeated in a later part.
Thm_C26 ==
    LET ps == PartsSoFar(asm)
    IN /\ \A i \in 1..Len(ps.parts_meta) :
             \A j \in 1..Len(ps.parts_meta[i].files) :
                 ps.parts_meta[i].files[j].path = HEADER_PATH => (i = 1 /\ j = 1)
       /\ \A piece \in {<<"INTRO", 0>>, <<"TREE", 0>>, <<"OPEN", 0>>} :
             /\ Occurrences(ps.context_parts, piece) <= 1
             /\ \A i \in 2..Len(ps.context_parts) :
                   piece \notin Range(ps.context_parts[i])

\* a run returned three parts, the header entry in the first only
Wit_C26 ==
    /\ Returned
    /\ Len(asm.parts_meta) = 3
    /\ asm.parts_meta[1].files[1].path = HEADER_PATH
    /\ \A i \in 2..3 : asm.parts_meta[i].files # <<>>


\* ---- build_and_write_json ----

JsonDone == lib_pc = "done" /\ "parts_meta" \in DOMAIN lib_in

\* the places <<part, position>> of the entries with findings
Flagged(pm) ==
    {<<i, j>> \in (1..Len(pm)) \X (1..(MaxFiles + 2)) :
        /\ j <= Len(pm[i].files)
        /\ pm[i].files[j].potential_secrets # <<>>}

\* part, then position in the part
PlaceBefore(a, b) == a[1] < b[1] \/ (a[1] = b[1] /\ a[2] < b[2])

\* C22: the warnings of the JSON document are, in part-then-file order, one
\* for each metadata entry with non-empty potential_secrets and no other,
\* each with the 1-based index of the part that holds the entry.
Thm_C22 ==
    JsonDone =>
        LET pm == lib_in.parts_meta
            ws == lib_out.json[1].warnings
        IN /\ Len(ws) = Cardinality(Flagged(pm))
           /\ \E place \in [1..Len(ws) -> Flagged(pm)] :
                /\ \A k, l \in 1..Len(ws) :
                      k < l => PlaceBefore(place[k], place[l])
                /\ \A k \in 1..Len(ws) :
                      LET e == pm[place[k][1]].files[place[k][2]]
                      IN /\ ws[k].part_index = place[k][1]
                         /\ ws[k].file_path = e.path
                         /\ ws[k].matches = e.potential_secrets

\* the header and a file with findings in part 1, another file with
\* findings in part 2: two warnings, for part 1 and then for part 2
Wit_C22 ==
    /\ JsonDone
    /\ Len(lib_in.parts_meta) = 2
    /\ Costs(lib_in.parts_meta[1].files) = <<1, 1>>
    /\ PathsOf(lib_in.parts_meta[1].files) = <<1>>
    /\ PathsOf(lib_in.parts_meta[2].files) = <<2>>
    /\ Len(lib_out.json[1].warnings) = 2
    /\ lib_out.json[1].warnings[1].part_index = 1
    /\ lib_out.json[1].warnings[1].file_path = 1
    /\ lib_out.json[1].warnings[2].part_index = 2
    /\ lib_out.json[1].warnings[2].file_path = 2

====
